---- MODULE Spec2Model ----
(***************************************************************************)
(* Model of the log-structured key/value store of Project2 (src/Project2/  *)
(* src/lib.rs): the JSON record codec, the append log kvs.db, the index    *)
(* store: key -> (offset, length), the counter uncompacted, and the        *)
(* operations open/load, set, get, remove and compact; main of            *)
(* src/Project2/src/bin/kvs.rs for the command line.                       *)
(*                                                                         *)
(* Files are sequences of bytes; a byte is a one-character string.  File   *)
(* offsets are 0-based as in the source, sequences are 1-based.            *)
(***************************************************************************)
EXTENDS Integers, Sequences, FiniteSets, TLC

\* ------------------------------------------------------------------ bounds
\* Number of set / successful remove calls in one behaviour.
MaxOps == 4

\* const COMPACTION_THRESHOLD: u64 = 1024 * 1024.  No bounded run reaches it:
\* the run of the calls against it is the run in which compaction is never
\* triggered (the variable ref).
COMPACTION_THRESHOLD == 1024 * 1024

\* The threshold of the run the variables store, db, ... describe: the
\* constant scaled down so that bounded runs exceed it.  Every comparison
\* against it is the source's comparison.
SmallThreshold == 49

\* The threshold of the runs in which compact may be interrupted, scaled
\* further down: one overwritten 32-byte record exceeds it, so that a crash
\* in one compaction and a later compaction both fit into MaxOps calls.
CrashThreshold == 31

\* ------------------------------------------------------------------ inputs
Q == "\""
BS == "\\"

\* Keys and values handed to set/get/remove.  The second value is the one
\* character string holding a double quote, which the encoder escapes, so
\* the two values have encodings of different lengths.
Keys == {<<"a">>, <<"b">>}
Values == {<<"1">>, <<Q>>}

\* ------------------------------------------------------------------- codec
\* enum Operation { Set { key, value }, Get { key }, Rm { key } }
OpSet(k, v) == [tag |-> "Set", key |-> k, value |-> v]
OpGet(k) == [tag |-> "Get", key |-> k]
OpRm(k) == [tag |-> "Rm", key |-> k]

Min(a, b) == IF a < b THEN a ELSE b

\* serde_json string escaping, for the characters the inputs contain.
RECURSIVE Escape(_)
Escape(s) ==
    IF s = <<>> THEN <<>>
    ELSE (IF Head(s) \in {Q, BS} THEN <<BS, Head(s)>> ELSE <<Head(s)>>)
         \o Escape(Tail(s))

EncStr(s) == <<Q>> \o Escape(s) \o <<Q>>

TagSet == <<"S", "e", "t">>
TagGet == <<"G", "e", "t">>
TagRm == <<"R", "m">>
FieldKey == <<"k", "e", "y">>
FieldValue == <<"v", "a", "l", "u", "e">>

TagOf(op) ==
    CASE op.tag = "Set" -> TagSet
      [] op.tag = "Get" -> TagGet
      [] op.tag = "Rm" -> TagRm

\* serde_json::to_writer of an externally tagged enum with struct variants:
\* {"Set":{"key":"..","value":".."}}, {"Get":{"key":".."}}, {"Rm":{"key":".."}}
Encode(op) ==
    <<"{">> \o EncStr(TagOf(op)) \o <<":", "{">>
    \o EncStr(FieldKey) \o <<":">> \o EncStr(op.key)
    \o (IF op.tag = "Set"
        THEN <<",">> \o EncStr(FieldValue) \o <<":">> \o EncStr(op.value)
        ELSE <<>>)
    \o <<"}", "}">>

Bad == [ok |-> FALSE]

\* Does the literal lit stand at offset i (0-based) of b?
LitAt(lit, b, i) ==
    /\ i + Len(lit) <= Len(b)
    /\ \A j \in 1..Len(lit) : b[i + j] = lit[j]

\* The body of a JSON string from offset i up to its closing quote.
RECURSIVE StrBody(_, _, _)
StrBody(b, i, acc) ==
    IF i >= Len(b) THEN Bad
    ELSE IF b[i + 1] = Q THEN [ok |-> TRUE, val |-> acc, next |-> i + 1]
    ELSE IF b[i + 1] = BS
         THEN IF i + 1 < Len(b) /\ b[i + 2] \in {Q, BS}
              THEN StrBody(b, i + 2, Append(acc, b[i + 2]))
              ELSE Bad
    ELSE StrBody(b, i + 1, Append(acc, b[i + 1]))

\* A JSON string at offset i.
ParseStr(b, i) == IF LitAt(<<Q>>, b, i) THEN StrBody(b, i + 1, <<>>) ELSE Bad

\* "name":"string" at offset i.
ParseField(name, b, i) ==
    IF LitAt(EncStr(name) \o <<":">>, b, i)
    THEN ParseStr(b, i + Len(name) + 3)
    ELSE Bad

\* One Operation at offset i: the record and the offset after it.
ParseOp(b, i) ==
    IF ~LitAt(<<"{">>, b, i) THEN Bad
    ELSE LET t == ParseStr(b, i + 1) IN
    IF ~t.ok \/ t.val \notin {TagSet, TagGet, TagRm} THEN Bad
    ELSE IF ~LitAt(<<":", "{">>, b, t.next) THEN Bad
    ELSE LET k == ParseField(FieldKey, b, t.next + 2) IN
    IF ~k.ok THEN Bad
    ELSE IF t.val = TagSet
         THEN IF ~LitAt(<<",">>, b, k.next) THEN Bad
              ELSE LET v == ParseField(FieldValue, b, k.next + 1) IN
              IF ~v.ok \/ ~LitAt(<<"}", "}">>, b, v.next) THEN Bad
              ELSE [ok |-> TRUE, op |-> OpSet(k.val, v.val), next |-> v.next + 2]
    ELSE IF ~LitAt(<<"}", "}">>, b, k.next) THEN Bad
    ELSE [ok |-> TRUE,
          op |-> IF t.val = TagGet THEN OpGet(k.val) ELSE OpRm(k.val),
          next |-> k.next + 2]

\* The bytes serde_json skips before a value and after the last one.
Whitespace == {" ", "\n", "\t", "\r"}

\* The first offset from i on that holds no whitespace.
RECURSIVE SkipWs(_, _)
SkipWs(b, i) ==
    IF i < Len(b) /\ b[i + 1] \in Whitespace THEN SkipWs(b, i + 1) ELSE i

\* serde_json::from_slice: one record and nothing but whitespace around it.
FromSlice(b) ==
    LET r == ParseOp(b, SkipWs(b, 0)) IN
    IF r.ok /\ SkipWs(b, r.next) = Len(b) THEN r ELSE Bad

\* ------------------------------------------------------------ the handle
\* A KvStore together with the two files of its directory:
\*   store        HashMap<String, (u64, u64)>, a function on a set of keys
\*   db           content of kvs.db
\*   comp         content of kvs.comp (empty: absent, open creates it)
\*   cursor       position of the File log
\*   uncompacted  the dead-byte counter
EmptyStore == [k \in {} |-> <<0, 0>>]

\* HashMap::insert and HashMap::remove
Insert(st, key, entry) ==
    [k \in DOMAIN st \cup {key} |-> IF k = key THEN entry ELSE st[k]]
Remove(st, key) == [k \in DOMAIN st \ {key} |-> st[k]]

\* The length insert/remove hand back in Some((_, len)), 0 for None.
OldLen(st, key) == IF key \in DOMAIN st THEN st[key][2] ELSE 0

\* LoadEntry with the end offset stored where the length belongs.
LoadEntryEnd(pos, new_pos) == <<pos, new_pos>>

\* The index entry load records for a Set record that spans pos..new_pos.
LoadEntry(pos, new_pos) == <<pos, new_pos - pos>>

\* LoadRmCount without the length of the removed entry.
LoadRmCountTombstone(len, tomb) == tomb

\* What load adds to the counter for a Rm record: the length of the entry
\* it removed (0 when there was none) and the length of the record.
LoadRmCount(len, tomb) == len + tomb

\* load that ends its loop at the first record that does not decode.
LoadFailStop(st, unc) == [ok |-> TRUE, store |-> st, uncompacted |-> unc]

\* op? on a record that does not decode: load returns the error.
LoadFail(st, unc) == Bad

\* The arm of load with a Get record treated as a Rm record.
LoadOtherAsRm(st, key) == Remove(st, key)

\* The arm `_ => ()` of load: a Get record leaves the index alone.
LoadOther(st, key) == st

\* The loop of load: pos is the offset before the record, r.next is
\* stream.byte_offset() after it.  The stream skips whitespace before a
\* record and ends when only whitespace is left.
RECURSIVE LoadFrom(_, _, _, _)
LoadFrom(b, pos, st, unc) ==
    IF SkipWs(b, pos) >= Len(b)
    THEN [ok |-> TRUE, store |-> st, uncompacted |-> unc]
    ELSE LET r == ParseOp(b, SkipWs(b, pos)) IN
    IF ~r.ok THEN LoadFail(st, unc)
    ELSE LET new_pos == r.next
             key == r.op.key
         IN CASE r.op.tag = "Set" ->
                   LoadFrom(b, new_pos, Insert(st, key, LoadEntry(pos, new_pos)),
                            unc + OldLen(st, key))
              [] r.op.tag = "Rm" ->
                   LoadFrom(b, new_pos, Remove(st, key),
                            unc + LoadRmCount(OldLen(st, key), new_pos - pos))
              [] OTHER -> LoadFrom(b, new_pos, LoadOther(st, key), unc)

\* load that decodes the file as a whole and so fails on an empty one.
LoadWhole(b) == IF b = <<>> THEN Bad ELSE LoadFrom(b, 0, EmptyStore, 0)

Load(b) == LoadFrom(b, 0, EmptyStore, 0)

Ok == [tag |-> "Ok"]
RetNone == [tag |-> "None"]
RetSome(v) == [tag |-> "Some", value |-> v]
Err(kind) == [tag |-> "Err", kind |-> kind]
\* KvsError::InvalidCommand { command: "Key not found" }
KeyNotFound == [tag |-> "Err", kind |-> "InvalidCommand", command |-> "Key not found"]

\* KvStore::open on a directory holding the files db and comp.  The reader
\* of load consumes the file to its end.
OpenOp(dbFile, compFile) ==
    LET l == Load(dbFile) IN
    IF l.ok
    THEN [ok |-> TRUE,
          kv |-> [store |-> l.store, db |-> dbFile, comp |-> compFile,
                  cursor |-> Len(dbFile), uncompacted |-> l.uncompacted]]
    ELSE [ok |-> FALSE,
          kv |-> [store |-> EmptyStore, db |-> dbFile, comp |-> compFile,
                  cursor |-> 0, uncompacted |-> 0]]

\* log on a file opened without append: the record is written at the
\* position of the file, over what is there.
LogAtCursor(kv, op) ==
    LET rec == Encode(op)
        db1 == SubSeq(kv.db, 1, kv.cursor) \o rec
               \o SubSeq(kv.db, kv.cursor + Len(rec) + 1, Len(kv.db))
    IN [kv EXCEPT !.db = db1, !.cursor = kv.cursor + Len(rec)]

\* KvStore::log: the file is opened in append mode, so the record goes to
\* the end of the file and the position is left there.
Log(kv, op) ==
    LET db1 == kv.db \o Encode(op) IN
    [kv EXCEPT !.db = db1, !.cursor = Len(db1)]

\* The copy without the limit of take: everything from pos to the end.
TakeToEnd(b, pos, len) == SubSeq(b, pos + 1, Len(b))

\* log.take(len) read through io::copy from offset pos: at most len bytes,
\* fewer when the file ends first.
Take(b, pos, len) == SubSeq(b, pos + 1, Min(pos + len, Len(b)))

\* The loop of compact with the new offset read after the copy.
RECURSIVE CompactLoopAfter(_, _, _, _, _)
CompactLoopAfter(order, st, b, c, ccur) ==
    IF order = <<>> THEN [store |-> st, comp |-> c]
    ELSE LET key == Head(order) IN
    IF key \notin DOMAIN st THEN CompactLoopAfter(Tail(order), st, b, c, ccur)
    ELSE LET c1 == c \o Take(b, st[key][1], st[key][2]) IN
         CompactLoopAfter(Tail(order), [st EXCEPT ![key] = <<Len(c1), st[key][2]>>],
                          b, c1, Len(c1))

\* The loop of compact over the index, in the iteration order order.  The
\* scratch file is opened with append and create, so its position starts at
\* 0, every copy lands at its end, and the position is at the end after a
\* copy.
RECURSIVE CompactLoop(_, _, _, _, _)
CompactLoop(order, st, b, c, ccur) ==
    IF order = <<>> THEN [store |-> st, comp |-> c]
    ELSE LET key == Head(order) IN
    IF key \notin DOMAIN st THEN CompactLoop(Tail(order), st, b, c, ccur)
    ELSE LET c1 == c \o Take(b, st[key][1], st[key][2]) IN
         CompactLoop(Tail(order), [st EXCEPT ![key] = <<ccur, st[key][2]>>],
                     b, c1, Len(c1))

\* compact with the loop iterating over a copy of the index, so that the
\* handle keeps the offsets of the old log.
CompactStaleIndex(kv, order) ==
    LET r == CompactLoop(order, kv.store, kv.db, kv.comp, 0) IN
    [store |-> kv.store, db |-> r.comp, comp |-> <<>>, cursor |-> 0,
     uncompacted |-> 0]

\* KvStore::compact: copy, reset the counter, rename kvs.comp to kvs.db,
\* reopen kvs.db.
Compact(kv, order) ==
    LET r == CompactLoop(order, kv.store, kv.db, kv.comp, 0) IN
    [store |-> r.store, db |-> r.comp, comp |-> <<>>, cursor |-> 0,
     uncompacted |-> 0]

\* The test with >= in the place of >.
ExceedsOrEqual(n, threshold) == n >= threshold

\* The test that ends set and remove.
Exceeds(n, threshold) == n > threshold

\* if self.uncompacted > COMPACTION_THRESHOLD { self.compact()?; }
\* counted is the counter the test reads, compacted whether compact ran.
MaybeCompact(kv, threshold, order) ==
    IF Exceeds(kv.uncompacted, threshold)
    THEN [kv |-> Compact(kv, order), ret |-> Ok,
          counted |-> kv.uncompacted, compacted |-> TRUE]
    ELSE [kv |-> kv, ret |-> Ok, counted |-> kv.uncompacted,
          compacted |-> FALSE]

\* SetEntry with the end offset stored where the length belongs.
SetEntryEnd(old_len, new_len) == <<old_len, new_len>>

\* The index entry set records for the record it appended.
SetEntry(old_len, new_len) == <<old_len, new_len - old_len>>

\* set with an insert that keeps the entry of a key already in the index.
SetOpKeepOld(kv, key, value, threshold, order) ==
    LET old_len == Len(kv.db)
        kv1 == Log(kv, OpSet(key, value))
        new_len == Len(kv1.db)
        kv2 == [kv1 EXCEPT
                  !.store = IF key \in DOMAIN kv.store THEN kv.store
                            ELSE Insert(kv.store, key, SetEntry(old_len, new_len)),
                  !.uncompacted = kv.uncompacted + OldLen(kv.store, key)]
    IN MaybeCompact(kv2, threshold, order)

\* set that takes the offset of its record from the position of the file
\* (seek(SeekFrom::Current(0))) where the source asks for the stream length.
SetUpdateAtCursor(kv, key, value) ==
    LET old_len == kv.cursor
        kv1 == Log(kv, OpSet(key, value))
        new_len == Len(kv1.db)
    IN [kv1 EXCEPT
          !.store = Insert(kv.store, key, SetEntry(old_len, new_len)),
          !.uncompacted = kv.uncompacted + OldLen(kv.store, key)]

\* set up to its threshold test: append, index and counter update.
SetUpdate(kv, key, value) ==
    LET old_len == Len(kv.db)
        kv1 == Log(kv, OpSet(key, value))
        new_len == Len(kv1.db)
    IN [kv1 EXCEPT
          !.store = Insert(kv.store, key, SetEntry(old_len, new_len)),
          !.uncompacted = kv.uncompacted + OldLen(kv.store, key)]

\* KvStore::set
SetOp(kv, key, value, threshold, order) ==
    MaybeCompact(SetUpdate(kv, key, value), threshold, order)

\* What remove adds to the counter for the entry it took out of the index
\* (len) and the tombstone it appended (new_len - old_len): the source adds
\* the tombstone only (lib.rs:227 drops the removed entry, lib.rs:235).
RemoveCount(len, tomb) == tomb

\* remove that appends the tombstone before it looks the key up.
RemoveOpLogFirst(kv, key, threshold, order) ==
    LET old_len == Len(kv.db)
        kv1 == Log(kv, OpRm(key))
        new_len == Len(kv1.db)
    IN IF key \notin DOMAIN kv.store
       THEN [kv |-> kv1, ret |-> KeyNotFound, counted |-> kv.uncompacted,
             compacted |-> FALSE]
       ELSE MaybeCompact(
                [kv1 EXCEPT
                   !.store = Remove(kv.store, key),
                   !.uncompacted = kv.uncompacted
                       + RemoveCount(kv.store[key][2], new_len - old_len)],
                threshold, order)

\* remove that looks the key up without taking it out of the index.
RemoveOpKeepEntry(kv, key, threshold, order) ==
    IF key \notin DOMAIN kv.store
    THEN [kv |-> kv, ret |-> KeyNotFound, counted |-> kv.uncompacted,
          compacted |-> FALSE]
    ELSE LET old_len == Len(kv.db)
             kv1 == Log(kv, OpRm(key))
             new_len == Len(kv1.db)
             kv2 == [kv1 EXCEPT
                       !.uncompacted = kv.uncompacted
                           + RemoveCount(kv.store[key][2], new_len - old_len)]
         IN MaybeCompact(kv2, threshold, order)

\* remove of a key of the index up to its threshold test: index update,
\* append, counter update.
RemoveUpdate(kv, key) ==
    LET old_len == Len(kv.db)
        kv1 == Log(kv, OpRm(key))
        new_len == Len(kv1.db)
    IN [kv1 EXCEPT
          !.store = Remove(kv.store, key),
          !.uncompacted = kv.uncompacted
              + RemoveCount(kv.store[key][2], new_len - old_len)]

\* KvStore::remove
RemoveOp(kv, key, threshold, order) ==
    IF key \notin DOMAIN kv.store
    THEN [kv |-> kv, ret |-> KeyNotFound, counted |-> kv.uncompacted,
          compacted |-> FALSE]
    ELSE MaybeCompact(RemoveUpdate(kv, key), threshold, order)

\* compact interrupted before the rename, after n index entries were
\* copied: kvs.db is as it was, kvs.comp holds the copies, the handle is
\* lost.
CompactCrash(kv, order, n) ==
    LET live == SelectSeq(order, LAMBDA k : k \in DOMAIN kv.store)
        r == CompactLoop(SubSeq(live, 1, Min(n, Len(live))), kv.store, kv.db,
                         kv.comp, 0)
    IN [store |-> EmptyStore, db |-> kv.db, comp |-> r.comp, cursor |-> 0,
        uncompacted |-> 0]

\* KvStore::get: the value it returns and the position it leaves.
GetOp(kv, key) ==
    IF key \notin DOMAIN kv.store THEN [kv |-> kv, ret |-> RetNone]
    ELSE LET index == kv.store[key][1]
             len == kv.store[key][2]
         IN IF index + len > Len(kv.db)
            THEN \* read_exact meets the end of the file
                 [kv |-> [kv EXCEPT !.cursor = IF index > Len(kv.db) THEN index
                                                ELSE Len(kv.db)],
                  ret |-> Err("Io")]
            ELSE LET r == FromSlice(SubSeq(kv.db, index + 1, index + len))
                     kv1 == [kv EXCEPT !.cursor = index + len]
                 IN IF ~r.ok THEN [kv |-> kv1, ret |-> Err("InvalidFile")]
                    ELSE IF r.op.tag = "Set"
                         THEN [kv |-> kv1, ret |-> RetSome(r.op.value)]
                    ELSE [kv |-> kv1, ret |-> RetNone]

\* The answer of get alone.
GetAnswer(kv, key) == GetOp(kv, key).ret

\* ------------------------------------------------------------------ state
\* Values of the history variable latest: the key was never set, its last
\* successful mutation was a remove, or it was set(key, v) (RetSome(v)).
NeverSet == [tag |-> "NeverSet"]
Removed == [tag |-> "Removed"]

VARIABLES
    store,        \* the index of the handle
    db,           \* kvs.db
    comp,         \* kvs.comp
    cursor,       \* position of the log file of the handle
    uncompacted,  \* the dead-byte counter of the handle
    opened,       \* is there a handle (the last open succeeded)
    call,         \* the last call made
    ret,          \* what it returned
    compacted,    \* did it run compact
    counted,      \* the counter its threshold test read
    before,       \* handle and files as the last call found them; after a
                  \* crash, as they were when compact started
    latest,       \* history: per key, the last successful set or remove
    ref,          \* the same calls run with compaction never triggered
    refret,       \* what the last call returned in that run
    nops          \* number of set / successful remove calls so far

vars == <<store, db, comp, cursor, uncompacted, opened, call, ret, compacted,
          counted, before, latest, ref, refret, nops>>

\* The handle and its files as one record.
Kv == [store |-> store, db |-> db, comp |-> comp, cursor |-> cursor,
       uncompacted |-> uncompacted]

\* What a call finds: the handle and its files (the position left out).
Snapshot == [store |-> store, db |-> db, comp |-> comp, cursor |-> 0,
             uncompacted |-> uncompacted]

\* HashMap iteration orders: the sequences that list every key once.
Orders == {o \in [1..Cardinality(Keys) -> Keys] : \A k \in Keys : \E i \in DOMAIN o : o[i] = k}

Install(kv) ==
    /\ store' = kv.store
    /\ db' = kv.db
    /\ comp' = kv.comp
    /\ cursor' = kv.cursor
    /\ uncompacted' = kv.uncompacted

\* KvStore::open("dir") on an empty directory.
Init ==
    /\ store = EmptyStore
    /\ db = <<>>
    /\ comp = <<>>
    /\ cursor = 0
    /\ uncompacted = 0
    /\ opened = TRUE
    /\ call = [op |-> "open"]
    /\ ret = Ok
    /\ compacted = FALSE
    /\ counted = 0
    /\ before = [store |-> EmptyStore, db |-> <<>>, comp |-> <<>>, cursor |-> 0,
                 uncompacted |-> 0]
    /\ latest = [k \in Keys |-> NeverSet]
    /\ ref = [store |-> EmptyStore, db |-> <<>>, comp |-> <<>>, cursor |-> 0,
              uncompacted |-> 0]
    /\ refret = Ok
    /\ nops = 0

\* store.set(key, value) in a run with the given threshold
SetWith(threshold, key, value, order) ==
    /\ opened
    /\ nops < MaxOps
    /\ LET r == SetOp(Kv, key, value, threshold, order)
           s == SetOp(ref, key, value, COMPACTION_THRESHOLD, order)
       IN /\ Install(r.kv)
          /\ ret' = r.ret
          /\ compacted' = r.compacted
          /\ counted' = r.counted
          /\ ref' = s.kv
          /\ refret' = s.ret
    /\ call' = [op |-> "set", key |-> key, value |-> value]
    /\ before' = Snapshot
    /\ latest' = [latest EXCEPT ![key] = RetSome(value)]
    /\ nops' = nops + 1
    /\ UNCHANGED opened

Set(key, value, order) == SetWith(SmallThreshold, key, value, order)

\* store.remove(key) in a run with the given threshold
RemoveWith(threshold, key, order) ==
    /\ opened
    /\ nops < MaxOps
    /\ LET r == RemoveOp(Kv, key, threshold, order)
           s == RemoveOp(ref, key, COMPACTION_THRESHOLD, order)
       IN /\ Install(r.kv)
          /\ ret' = r.ret
          /\ compacted' = r.compacted
          /\ counted' = r.counted
          /\ ref' = s.kv
          /\ refret' = s.ret
          /\ latest' = IF r.ret = Ok THEN [latest EXCEPT ![key] = Removed]
                       ELSE latest
          /\ nops' = IF r.ret = Ok THEN nops + 1 ELSE nops
    /\ call' = [op |-> "remove", key |-> key]
    /\ before' = Snapshot
    /\ UNCHANGED opened

RemoveKey(key, order) == RemoveWith(SmallThreshold, key, order)

\* store.get(key)
Get(key) ==
    /\ opened
    /\ LET r == GetOp(Kv, key)
           s == GetOp(ref, key)
       IN /\ Install(r.kv)
          /\ ret' = r.ret
          /\ ref' = s.kv
          /\ refret' = s.ret
    /\ call' = [op |-> "get", key |-> key]
    /\ compacted' = FALSE
    /\ counted' = uncompacted
    /\ before' = Snapshot
    /\ UNCHANGED <<opened, latest, nops>>

\* Drop the handle, if there is one, and KvStore::open the directory again.
Reopen ==
    /\ LET r == OpenOp(db, comp)
           s == OpenOp(ref.db, ref.comp)
       IN /\ Install(r.kv)
          /\ opened' = r.ok
          /\ ret' = IF r.ok THEN Ok ELSE Err("InvalidFile")
          /\ ref' = s.kv
          /\ refret' = IF s.ok THEN Ok ELSE Err("InvalidFile")
    /\ call' = [op |-> "open"]
    /\ compacted' = FALSE
    /\ counted' = uncompacted'
    /\ before' = Snapshot
    /\ UNCHANGED <<latest, nops>>

Next ==
    \/ \E key \in Keys, value \in Values, order \in Orders : Set(key, value, order)
    \/ \E key \in Keys, order \in Orders : RemoveKey(key, order)
    \/ \E key \in Keys : Get(key)
    \/ Reopen

Spec == Init /\ [][Next]_vars

\* ------------------------------------------------- interrupted compaction
\* The process dies inside the compact that a set or a remove started, after
\* n entries were copied and before the rename.  kv is the handle at the
\* start of compact; the appended record is in kvs.db.
Crash(kv, order, n) ==
    /\ Exceeds(kv.uncompacted, CrashThreshold)
    /\ n \in 0..Cardinality(DOMAIN kv.store)
    /\ Install(CompactCrash(kv, order, n))
    /\ opened' = FALSE
    /\ ret' = [tag |-> "Crash"]
    /\ refret' = [tag |-> "Crash"]
    /\ compacted' = FALSE
    /\ counted' = kv.uncompacted
    /\ before' = [kv EXCEPT !.cursor = 0]
    /\ nops' = nops + 1

CrashInSet(key, value, order, n) ==
    /\ opened
    /\ nops < MaxOps
    /\ Crash(SetUpdate(Kv, key, value), order, n)
    /\ ref' = SetUpdate(ref, key, value)
    /\ call' = [op |-> "crash", in |-> "set", key |-> key]
    /\ latest' = [latest EXCEPT ![key] = RetSome(value)]

CrashInRemove(key, order, n) ==
    /\ opened
    /\ nops < MaxOps
    /\ key \in DOMAIN store
    /\ Crash(RemoveUpdate(Kv, key), order, n)
    /\ ref' = RemoveUpdate(ref, key)
    /\ call' = [op |-> "crash", in |-> "remove", key |-> key]
    /\ latest' = [latest EXCEPT ![key] = Removed]

NextCrash ==
    \/ \E key \in Keys, value \in Values, order \in Orders :
           SetWith(CrashThreshold, key, value, order)
    \/ \E key \in Keys, order \in Orders : RemoveWith(CrashThreshold, key, order)
    \/ \E key \in Keys : Get(key)
    \/ Reopen
    \/ \E key \in Keys, value \in Values, order \in Orders, n \in 0..Cardinality(Keys) :
           CrashInSet(key, value, order, n)
    \/ \E key \in Keys, order \in Orders, n \in 0..Cardinality(Keys) :
           CrashInRemove(key, order, n)

SpecCrash == Init /\ [][NextCrash]_vars

\* ----------------------------------------------------------------- claims
\* Has compact rewritten the log since the directory was created?  The run
\* without compaction holds every record ever appended.
HasCompacted == db # ref.db

\* C1: read-your-writes and overwrite.  For every key whose last successful
\* mutation on the handle is set(k, v), get(k) answers Some(v), whatever was
\* done to other keys and whether or not the log was compacted in between;
\* a get call that was made returned that answer.
C1_ReadYourWrites ==
    opened =>
        /\ \A k \in Keys :
               latest[k].tag = "Some" => GetAnswer(Kv, k) = latest[k]
        /\ (call.op = "get" /\ latest[call.key].tag = "Some")
               => ret = latest[call.key]

\* A get that returned the second of two different values set for its key,
\* after a compaction.
C1_Witness ==
    /\ call.op = "get"
    /\ ret = RetSome(<<Q>>)
    /\ HasCompacted
    /\ \E i \in 0..Len(ref.db) :
           LET r == ParseOp(ref.db, i) IN
           r.ok /\ r.op = OpSet(call.key, <<"1">>)

\* C2: persistence.  In every state the handle can be in, opening the
\* directory again succeeds and yields a handle that gives the same get
\* answer for every key.
C2_Persistence ==
    opened =>
        LET r == OpenOp(db, comp) IN
        /\ r.ok
        /\ \A k \in Keys : GetAnswer(r.kv, k) = GetAnswer(Kv, k)

\* The directory was opened again after sets, a remove and a compaction, one
\* key being present and one removed.
C2_Witness ==
    /\ call.op = "open"
    /\ HasCompacted
    /\ \E k \in Keys : latest[k].tag = "Some" /\ GetAnswer(Kv, k) = latest[k]
    /\ \E k \in Keys : latest[k] = Removed

\* C3: compaction preserves semantics.  The run with the threshold and the
\* run of the same calls in which compaction is never triggered give the
\* same get answers: for every key in every state, and for every get call
\* made.
C3_CompactionPreservesGet ==
    opened =>
        /\ \A k \in Keys : GetAnswer(Kv, k) = GetAnswer(ref, k)
        /\ call.op = "get" => ret = refret

\* A get answered from a compacted log that holds two live records, while
\* the log of the other run holds dead records as well.
C3_Witness ==
    /\ call.op = "get"
    /\ ret.tag = "Some"
    /\ HasCompacted
    /\ Cardinality(DOMAIN store) = 2
    /\ uncompacted = 0
    /\ ref.uncompacted > SmallThreshold

\* Is p a prefix of b?
IsPrefix(p, b) == Len(p) <= Len(b) /\ SubSeq(b, 1, Len(p)) = p

\* The sum of the lengths of the entries of an index.
RECURSIVE SumLens(_)
SumLens(st) ==
    IF DOMAIN st = {} THEN 0
    ELSE LET k == CHOOSE x \in DOMAIN st : TRUE
         IN st[k][2] + SumLens(Remove(st, k))

\* The records of a file from offset i on, <<Bad>> when they do not parse.
RECURSIVE Records(_, _)
Records(b, i) ==
    IF i >= Len(b) THEN <<>>
    ELSE LET r == ParseOp(b, i) IN
         IF r.ok THEN <<r.op>> \o Records(b, r.next) ELSE <<Bad>>

\* C4: remove-missing.  A remove of a key that is not in the index (never
\* set, or removed before) returns the key-not-found error, which the source
\* spells InvalidCommand { command: "Key not found" }, appends nothing to
\* the log, and leaves the index and the counter as they were.
C4_RemoveMissing ==
    (call.op = "remove" /\ call.key \notin DOMAIN before.store) =>
        /\ ret = KeyNotFound
        /\ db = before.db
        /\ store = before.store
        /\ uncompacted = before.uncompacted
        /\ ~compacted

\* A remove of a key that was set and removed before.
C4_Witness ==
    /\ call.op = "remove"
    /\ ret = KeyNotFound
    /\ latest[call.key] = Removed
    /\ db # <<>>

\* C5: remove-then-get.  For every key whose last successful mutation is a
\* remove, get answers None on the handle, a get call that was made
\* returned None, and get answers None on the handle of a new open.
C5_RemoveThenGet ==
    opened =>
        /\ \A k \in Keys : latest[k] = Removed =>
               /\ GetAnswer(Kv, k) = RetNone
               /\ OpenOp(db, comp).ok
               /\ GetAnswer(OpenOp(db, comp).kv, k) = RetNone
        /\ (call.op = "get" /\ latest[call.key] = Removed) => ret = RetNone

\* A get of a removed key on a handle opened after the remove: the counter
\* covers the whole log, tombstone and removed record, which only the
\* replay of load produces.
C5_Witness ==
    /\ call.op = "get"
    /\ latest[call.key] = Removed
    /\ ret = RetNone
    /\ db # <<>>
    /\ DOMAIN store = {}
    /\ uncompacted = Len(db)

\* C6: index invariant.  Every index entry key -> (offset, length) lies
\* within the log, the bytes it spans decode to exactly one Set record, the
\* key of the record is the index key, and the record is the one the last
\* set of that key wrote.
C6_IndexInvariant ==
    opened =>
        \A k \in DOMAIN store :
            LET offset == store[k][1]
                length == store[k][2]
            IN /\ offset + length <= Len(db)
               /\ latest[k].tag = "Some"
               /\ SubSeq(db, offset + 1, offset + length)
                      = Encode(OpSet(k, latest[k].value))
               /\ LET r == FromSlice(SubSeq(db, offset + 1, offset + length))
                  IN r.ok /\ r.op = OpSet(k, latest[k].value)

\* Two keys indexed, the entry of one behind dead records of its own key.
C6_Witness ==
    /\ opened
    /\ Cardinality(DOMAIN store) = 2
    /\ ~HasCompacted
    /\ uncompacted > 0
    /\ \E k \in DOMAIN store : store[k][1] > 0 /\ store[k][1] + store[k][2] < Len(db)

\* C7: after a call that ran compact, the counter is 0 and the log is
\* one Set record for each key of the index and nothing else, so its
\* length is the sum of the lengths of the index entries.
C7_AfterCompaction ==
    compacted =>
        /\ uncompacted = 0
        /\ Len(db) = SumLens(store)
        /\ LET recs == Records(db, 0) IN
           /\ Len(recs) = Cardinality(DOMAIN store)
           /\ \A i \in DOMAIN recs :
                  /\ recs[i] # Bad
                  /\ recs[i].tag = "Set"
                  /\ recs[i].key \in DOMAIN store
                  /\ \A j \in DOMAIN recs : recs[j].key = recs[i].key => j = i

\* A compaction that kept two keys, the log having held dead records.
C7_Witness ==
    /\ compacted
    /\ Cardinality(DOMAIN store) = 2
    /\ counted > SmallThreshold
    /\ Len(db) < Len(before.db)

\* C8: a successful remove of a key in the index adds to the counter the
\* length of the removed Set record and the length of the tombstone it
\* appended (the counter its threshold test then reads).
C8_RemoveCountsBoth ==
    (call.op = "remove" /\ ret = Ok) =>
        counted = before.uncompacted + before.store[call.key][2]
                  + Len(Encode(OpRm(call.key)))

\* C9: dead-byte counter invariant.  The counter is the number of bytes of
\* the log that no index entry covers.
C9_CounterInvariant ==
    opened => uncompacted = Len(db) - SumLens(store)

\* C10: compaction trigger.  A successful set or remove ran compact exactly
\* when the counter it had after its index and counter update was greater
\* than the threshold of the run; when it did not, the log is the old log with
\* one record appended and the counter is the updated one; get, open and a
\* failed remove never run it and leave the log alone.
C10_CompactionTrigger ==
    /\ (call.op \in {"set", "remove"} /\ ret = Ok) =>
           /\ compacted <=> counted > SmallThreshold
           /\ compacted => uncompacted = 0
           /\ ~compacted =>
                  /\ IsPrefix(before.db, db)
                  /\ Len(db) > Len(before.db)
                  /\ uncompacted = counted
    /\ (call.op \in {"get", "open"} \/ ret # Ok) =>
           /\ ~compacted
           /\ db = before.db

\* A remove whose updated counter is exactly the threshold and which did
\* not compact.
C10_Witness ==
    /\ call.op = "remove"
    /\ ret = Ok
    /\ counted = SmallThreshold
    /\ ~compacted
    /\ uncompacted = SmallThreshold

\* ----------------------------------------------- a log written by others
\* Bytes appended to kvs.db between two runs of the program: the handle is
\* gone, the next call is an open.
Foreign(bytes, what) ==
    /\ nops < MaxOps
    /\ db' = db \o bytes
    /\ store' = EmptyStore
    /\ cursor' = 0
    /\ uncompacted' = 0
    /\ opened' = FALSE
    /\ call' = [op |-> what, bytes |-> bytes]
    /\ ret' = Ok
    /\ refret' = Ok
    /\ compacted' = FALSE
    /\ counted' = 0
    /\ before' = Snapshot
    /\ ref' = [ref EXCEPT !.db = ref.db \o bytes, !.store = EmptyStore,
                          !.cursor = 0, !.uncompacted = 0]
    /\ nops' = nops + 1
    /\ UNCHANGED <<comp, latest>>

\* Tails that are not records: the bytes "garbage", a record cut short, and
\* a newline.
Garbage == <<"g", "a", "r", "b", "a", "g", "e">>
CutRecord == <<"{", Q, "S", "e", "t", Q, ":">>
Newline == <<"\n">>
Tails == {Garbage, CutRecord, Newline}

\* kvs.db is corrupted by appending a tail.
Corrupt(tail) == Foreign(tail, "corrupt")

NextCorrupt ==
    \/ \E key \in Keys, value \in Values, order \in Orders : Set(key, value, order)
    \/ \E key \in Keys, order \in Orders : RemoveKey(key, order)
    \/ \E key \in Keys : Get(key)
    \/ Reopen
    \/ \E tail \in Tails : Corrupt(tail)

SpecCorrupt == Init /\ [][NextCorrupt]_vars

\* A historical writer appended a Get record.
LegacyGet(key) == Foreign(Encode(OpGet(key)), "legacy")

NextLegacy ==
    \/ \E key \in Keys, value \in Values, order \in Orders : Set(key, value, order)
    \/ \E key \in Keys, order \in Orders : RemoveKey(key, order)
    \/ \E key \in Keys : Get(key)
    \/ Reopen
    \/ \E key \in Keys : LegacyGet(key)

SpecLegacy == Init /\ [][NextLegacy]_vars

\* ------------------------------------------------------- the command line
\* The text "Key not found" as characters, the way values are.
KeyNotFoundText ==
    <<"K", "e", "y", " ", "n", "o", "t", " ", "f", "o", "u", "n", "d">>

\* What a process leaves: exit status, lines on stdout, lines on stderr.
Exit(code, out, err) == [tag |-> "Exit", code |-> code, stdout |-> out, stderr |-> err]

\* main returning Err(e): the runtime prints "Error: {e:?}" on stderr and
\* the exit status is 1.
ExitErr(e) ==
    Exit(1, <<>>,
         <<CASE e = KeyNotFound -> "Error: InvalidCommand { command: \"Key not found\" }"
             [] e = Err("InvalidFile") -> "Error: InvalidFile(..)"
             [] OTHER -> "Error: Io(..)">>)

\* What one run leaves: the files (in kv), what it printed with its exit
\* status, and whether it compacted.
Ran(kv, exit, didCompact) == [kv |-> kv, exit |-> exit, compacted |-> didCompact]

\* Command::Set: store.set(key, value), nothing printed.
MainSet(r) == Ran(r.kv, Exit(0, <<>>, <<>>), r.compacted)

\* Command::Get: the value, or "Key not found", on stdout; status 0.
MainGet(r) ==
    Ran(r.kv,
        CASE r.ret.tag = "Some" -> Exit(0, <<r.ret.value>>, <<>>)
          [] r.ret.tag = "None" -> Exit(0, <<KeyNotFoundText>>, <<>>)
          [] OTHER -> ExitErr(r.ret),
        FALSE)

\* Command::Rm: store.remove(key) is what main returns.
MainRm(r) ==
    Ran(r.kv, IF r.ret = Ok THEN Exit(0, <<>>, <<>>) ELSE ExitErr(r.ret), r.compacted)

\* The match on the command, on the handle that open gave.
MainMatch(o, cmd, threshold, order) ==
    IF ~o.ok THEN Ran(o.kv, ExitErr(Err("InvalidFile")), FALSE)
    ELSE CASE cmd.op = "set" -> MainSet(SetOp(o.kv, cmd.key, cmd.value, threshold, order))
           [] cmd.op = "get" -> MainGet(GetOp(o.kv, cmd.key))
           [] cmd.op = "rm" -> MainRm(RemoveOp(o.kv, cmd.key, threshold, order))

\* main of bin/kvs.rs for one command, in a directory holding dbFile and
\* compFile: the files it leaves, what it printed and its exit status.
Main(dbFile, compFile, cmd, threshold, order) ==
    MainMatch(OpenOp(dbFile, compFile), cmd, threshold, order)

\* One run of the program kvs: the process opens the directory, executes
\* the command and exits, which drops its handle.
Cli(cmd, order) ==
    /\ cmd.op \in {"set", "rm"} => nops < MaxOps
    /\ \E r \in {Main(db, comp, cmd, SmallThreshold, order)},
          s \in {Main(ref.db, ref.comp, cmd, COMPACTION_THRESHOLD, order)} :
          /\ db' = r.kv.db
          /\ comp' = r.kv.comp
          /\ ret' = r.exit
          /\ compacted' = r.compacted
          /\ ref' = [s.kv EXCEPT !.store = EmptyStore, !.cursor = 0,
                                 !.uncompacted = 0]
          /\ refret' = s.exit
          /\ latest' = IF r.exit.code # 0 \/ cmd.op = "get" THEN latest
                       ELSE IF cmd.op = "set"
                            THEN [latest EXCEPT ![cmd.key] = RetSome(cmd.value)]
                       ELSE [latest EXCEPT ![cmd.key] = Removed]
          /\ nops' = IF r.exit.code # 0 \/ cmd.op = "get" THEN nops ELSE nops + 1
    /\ store' = EmptyStore
    /\ cursor' = 0
    /\ uncompacted' = 0
    /\ opened' = FALSE
    /\ counted' = 0
    /\ call' = [op |-> "cli", cmd |-> cmd]
    /\ before' = Snapshot

\* The command lines: kvs set KEY VALUE, kvs get KEY, kvs rm KEY.
CliSet(key, value, order) == Cli([op |-> "set", key |-> key, value |-> value], order)
CliGet(key) == Cli([op |-> "get", key |-> key], <<>>)
CliRm(key, order) == Cli([op |-> "rm", key |-> key], order)

NextCli ==
    \/ \E key \in Keys, value \in Values, order \in Orders : CliSet(key, value, order)
    \/ \E key \in Keys : CliGet(key)
    \/ \E key \in Keys, order \in Orders : CliRm(key, order)

SpecCli == Init /\ [][NextCli]_vars

\* The record the index entry of key k spans in the log of kv, Bad when the
\* entry leaves the log or its bytes are not one record.
EntryRecord(kv, k) ==
    IF kv.store[k][1] + kv.store[k][2] > Len(kv.db) THEN Bad
    ELSE FromSlice(SubSeq(kv.db, kv.store[k][1] + 1, kv.store[k][1] + kv.store[k][2]))

\* C11: corrupt read.  A get that finds an index entry whose bytes decode to
\* a record that is not a Set record, or to a Set record of another key,
\* fails with the bad-format error (InvalidFile in the source).
C11_CorruptRead ==
    (/\ call.op = "get"
     /\ call.key \in DOMAIN before.store
     /\ EntryRecord(before, call.key).ok
     /\ \/ EntryRecord(before, call.key).op.tag # "Set"
        \/ EntryRecord(before, call.key).op.key # call.key)
    => ret = Err("InvalidFile")

\* C12: crash during compaction.  When compact is interrupted before the
\* rename, kvs.db is what it was when compact started, and opening the
\* directory gives a handle whose get answers are those of the handle at
\* the start of compact.
C12_CrashBeforeRename ==
    call.op = "crash" =>
        /\ db = before.db
        /\ OpenOp(db, comp).ok
        /\ \A k \in Keys :
               GetAnswer(OpenOp(db, comp).kv, k) = GetAnswer(before, k)

\* C13: stale scratch file.  A compaction that found a non-empty kvs.comp
\* leaves no stale bytes in kvs.db (the log is as long as the index entries
\* together) and every index entry spans the Set record of its own key.
C13_StaleScratchOverwritten ==
    (compacted /\ before.comp # <<>>) =>
        /\ Len(db) = SumLens(store)
        /\ \A k \in DOMAIN store :
               /\ EntryRecord(Kv, k).ok
               /\ EntryRecord(Kv, k).op.tag = "Set"
               /\ EntryRecord(Kv, k).op.key = k

\* C14: append-only log.  A step that did not run compact leaves the old
\* log as a prefix of the new one: a set or a successful remove appends one
\* record at the tail, every other call leaves the log as it is; the log
\* shrinks or changes in place only in a step that ran compact.
C14_AppendOnly ==
    [][/\ ~compacted' => IsPrefix(db, db')
       /\ (call'.op \in {"set", "remove"} /\ ret' = Ok /\ ~compacted')
              => Len(db') > Len(db)
       /\ (call'.op \in {"get", "open"} \/ ret' # Ok) => db' = db]_vars

\* A record appended, without compaction, to a log that was compacted
\* before.
C14_Witness ==
    /\ call.op \in {"set", "remove"}
    /\ ret = Ok
    /\ ~compacted
    /\ HasCompacted
    /\ before.db # <<>>
    /\ Len(db) > Len(before.db)

\* C17: empty store.  An open that finds an empty kvs.db (or none, which it
\* creates empty) succeeds with an empty index and a counter of 0, get
\* answers None for every key on that handle, and a get call on it returned
\* None.
C17_EmptyStore ==
    /\ OpenOp(<<>>, <<>>).ok
    /\ (call.op = "open" /\ db = <<>>) =>
           /\ opened
           /\ ret = Ok
           /\ store = EmptyStore
           /\ uncompacted = 0
           /\ \A k \in Keys : GetAnswer(Kv, k) = RetNone
    /\ (call.op = "get" /\ db = <<>>) => ret = RetNone

\* An open of a directory whose log a compaction had emptied.
C17_Witness ==
    /\ call.op = "open"
    /\ db = <<>>
    /\ opened
    /\ HasCompacted
    /\ nops > 0

\* The records of a file with the offset and the length of each.
RECURSIVE Spans(_, _)
Spans(b, i) ==
    IF i >= Len(b) THEN <<>>
    ELSE LET r == ParseOp(b, i) IN
         IF r.ok THEN <<[op |-> r.op, pos |-> i, len |-> r.next - i]>>
                      \o Spans(b, r.next)
         ELSE <<>>

\* Is record i of spans dead: a Rm record, or a Set record with a later Set
\* or Rm record of its key.
IsDead(spans, i) ==
    \/ spans[i].op.tag = "Rm"
    \/ /\ spans[i].op.tag = "Set"
       /\ \E j \in (i + 1)..Len(spans) :
              spans[j].op.key = spans[i].op.key /\ spans[j].op.tag \in {"Set", "Rm"}

\* The sum of the lengths of the dead records among records i.. of spans.
RECURSIVE DeadSum(_, _)
DeadSum(spans, i) ==
    IF i > Len(spans) THEN 0
    ELSE (IF IsDead(spans, i) THEN spans[i].len ELSE 0) + DeadSum(spans, i + 1)

\* C19: replay accounting.  After open has replayed a log of Set and Rm
\* records, the counter is the sum of the lengths of the overwritten Set
\* records, the removed Set records and the Rm records, and the index holds
\* exactly, for each key whose last record is a Set, the offset and the
\* length of that record.
C19_ReplayAccounting ==
    (call.op = "open" /\ opened) =>
        LET spans == Spans(db, 0) IN
        /\ uncompacted = DeadSum(spans, 1)
        /\ \A i \in DOMAIN spans :
               (spans[i].op.tag = "Set" /\ ~IsDead(spans, i)) =>
                   /\ spans[i].op.key \in DOMAIN store
                   /\ store[spans[i].op.key] = <<spans[i].pos, spans[i].len>>
        /\ \A k \in DOMAIN store :
               \E i \in DOMAIN spans :
                   /\ spans[i].op.tag = "Set"
                   /\ spans[i].op.key = k
                   /\ ~IsDead(spans, i)

\* An open of a log that holds an overwritten Set record, a removed Set
\* record, a Rm record and a live Set record.
C19_Witness ==
    /\ call.op = "open"
    /\ opened
    /\ ~HasCompacted
    /\ DOMAIN store # {}
    /\ \E k \in Keys : latest[k] = Removed
    /\ uncompacted > before.uncompacted
    /\ Len(Spans(db, 0)) = 4

\* C20: compaction frame.  A call that ran compact leaves in the index the
\* keys its own index update produced, each with the length it had, and
\* in the new log the byte ranges of the entries are pairwise disjoint and
\* cover the log exactly.
C20_CompactionFrame ==
    compacted =>
        /\ DOMAIN store = IF call.op = "set"
                          THEN DOMAIN before.store \cup {call.key}
                          ELSE DOMAIN before.store \ {call.key}
        /\ \A k \in DOMAIN store :
               store[k][2] = IF call.op = "set" /\ k = call.key
                             THEN Len(Encode(OpSet(call.key, call.value)))
                             ELSE before.store[k][2]
        /\ \A k1, k2 \in DOMAIN store :
               k1 # k2 => \/ store[k1][1] + store[k1][2] <= store[k2][1]
                          \/ store[k2][1] + store[k2][2] <= store[k1][1]
        /\ \A i \in 0..(Len(db) - 1) :
               \E k \in DOMAIN store :
                   store[k][1] <= i /\ i < store[k][1] + store[k][2]
        /\ \A k \in DOMAIN store : store[k][1] + store[k][2] <= Len(db)

\* A compaction that kept two entries of different lengths and moved one of
\* them to another offset.
C20_Witness ==
    /\ compacted
    /\ Cardinality(DOMAIN store) = 2
    /\ \E k \in DOMAIN store \cap DOMAIN before.store :
           /\ store[k][1] # before.store[k][1]
           /\ store[k][1] > 0
           /\ \E k2 \in DOMAIN store : store[k2][2] # store[k][2]

\* C15 as claimed: whenever a tail that is not a record was appended to a
\* log of one or more well-formed records, the open that follows fails with the
\* bad-format error (InvalidFile in the source) and there is no handle.
C15_AnyTailRejected ==
    [][(/\ call.op = "corrupt"
        /\ Len(Spans(db, 0)) >= 1
        /\ call'.op = "open")
           => (~opened' /\ ret' = Err("InvalidFile"))]_vars

\* C15: corrupt log on open.  Whenever a tail that is not a record and not
\* whitespace only was appended to a log of one or more well-formed records,
\* the open
\* that follows fails with the bad-format error and there is no handle.
C15_GarbageTailRejected ==
    [][(/\ call.op = "corrupt"
        /\ Len(Spans(db, 0)) >= 1
        /\ \E i \in DOMAIN call.bytes : call.bytes[i] \notin Whitespace
        /\ call'.op = "open")
           => (~opened' /\ ret' = Err("InvalidFile"))]_vars

\* An open that failed on a log of two records or more followed by the bytes
\* "garbage".
C15_Witness ==
    /\ call.op = "open"
    /\ ~opened
    /\ ret = Err("InvalidFile")
    /\ Len(Spans(db, 0)) >= 2
    /\ Len(db) >= Len(Garbage)
    /\ SubSeq(db, Len(db) - Len(Garbage) + 1, Len(db)) = Garbage

\* The log without its Get records.
RECURSIVE StripGet(_)
StripGet(spans) ==
    IF spans = <<>> THEN <<>>
    ELSE (IF Head(spans).op.tag = "Get" THEN <<>> ELSE Encode(Head(spans).op))
         \o StripGet(Tail(spans))

\* The number of Get records of a log.
NumGet(b) == Cardinality({i \in DOMAIN Spans(b, 0) : Spans(b, 0)[i].op.tag = "Get"})

\* C16: legacy records.  A handle opened on a log with Get records has the
\* keys, the entry lengths, the counter and the get answers of a handle
\* opened on the log without them, every entry spans the Set record of its
\* key (the offsets behind a Get record are right), and no set or remove
\* adds a Get record to the log.
C16_LegacyGetIgnored ==
    /\ [](opened =>
            /\ \A k \in DOMAIN store :
                   /\ EntryRecord(Kv, k).ok
                   /\ EntryRecord(Kv, k).op.tag = "Set"
                   /\ EntryRecord(Kv, k).op.key = k
                   /\ latest[k] = RetSome(EntryRecord(Kv, k).op.value)
            /\ call.op = "open" =>
                   LET clean == OpenOp(StripGet(Spans(db, 0)), comp) IN
                   /\ clean.ok
                   /\ DOMAIN store = DOMAIN clean.kv.store
                   /\ \A k \in DOMAIN store : store[k][2] = clean.kv.store[k][2]
                   /\ uncompacted = clean.kv.uncompacted
                   /\ \A k \in Keys : GetAnswer(Kv, k) = GetAnswer(clean.kv, k))
    /\ [][call'.op \in {"set", "remove"} => NumGet(db') <= NumGet(db)]_vars

\* An open of a log in which a Get record of a live key stands before the
\* Set record the index points to.
C16_Witness ==
    /\ call.op = "open"
    /\ opened
    /\ LET spans == Spans(db, 0) IN
       \E i, j \in DOMAIN spans :
           /\ i < j
           /\ spans[i].op.tag = "Get"
           /\ spans[j].op.tag = "Set"
           /\ spans[j].op.key = spans[i].op.key
           /\ spans[j].op.key \in DOMAIN store
           /\ store[spans[j].op.key] = <<spans[j].pos, spans[j].len>>

\* C18: rm of a missing key on the command line.  A run of `rm <KEY>` for
\* a key that the store does not hold prints exactly `Key not found` (on
\* stdout, or else on stderr), exits with a status other than 0, and leaves
\* the log as it was.
C18_CliRmMissing ==
    (/\ call.op = "cli"
     /\ call.cmd.op = "rm"
     /\ OpenOp(before.db, before.comp).ok
     /\ call.cmd.key \notin DOMAIN OpenOp(before.db, before.comp).kv.store)
    => /\ \/ ret.stdout = <<KeyNotFoundText>> /\ ret.stderr = <<>>
          \/ ret.stdout = <<>> /\ ret.stderr = <<"Key not found">>
       /\ ret.code # 0
       /\ db = before.db

\* C21: bounded garbage.  Whenever open, set or remove has returned
\* successfully, the dead-byte counter of the handle is at most the
\* compaction threshold of the run; in particular a handle opened on a log
\* that only set and remove wrote does not start above the threshold.
C21_BoundedGarbage ==
    (/\ opened
     /\ call.op \in {"open", "set", "remove"}
     /\ ret = Ok)
    => uncompacted <= SmallThreshold

\* The index of kv has exactly the keys whose last mutation was a set, every
\* entry spans the Set record of its key with the value last set, and the
\* log holds nothing but these records.
RightRecords(kv, last) ==
    /\ DOMAIN kv.store = {k \in Keys : last[k].tag = "Some"}
    /\ \A k \in DOMAIN kv.store :
           /\ EntryRecord(kv, k).ok
           /\ EntryRecord(kv, k).op = OpSet(k, last[k].value)
    /\ Len(kv.db) = SumLens(kv.store)

\* C22: get is read-only.  A get, of a present or an absent key, leaves
\* the log, the scratch file, the index and the counter as they were; and
\* the position it leaves does not reach the next call: a set that follows
\* a get records the log length before its append as the offset and the
\* bytes it appended as the length, and a compaction that a set or remove
\* following a get runs leaves exactly the live Set records, each index
\* entry on the record of its key.
C22_GetReadOnly ==
    /\ [](call.op = "get" =>
            /\ db = before.db
            /\ comp = before.comp
            /\ store = before.store
            /\ uncompacted = before.uncompacted)
    /\ [][(call.op = "get" /\ call'.op = "set") =>
            IF compacted'
            THEN RightRecords(Kv', latest')
            ELSE /\ db' = db \o Encode(OpSet(call'.key, call'.value))
                 /\ store'[call'.key] = <<Len(db), Len(db') - Len(db)>>
                 /\ \A k \in DOMAIN store \ {call'.key} :
                        k \in DOMAIN store' /\ store'[k] = store[k]]_vars
    /\ [][(call.op = "get" /\ call'.op = "remove" /\ compacted') =>
            RightRecords(Kv', latest')]_vars

\* A get of a present key has left the position inside the log, a get of
\* an absent key is possible too, and of the sets that can follow one runs
\* compact and one does not.
C22_Witness ==
    /\ call.op = "get"
    /\ ret.tag = "Some"
    /\ 0 < cursor
    /\ cursor < Len(db)
    /\ nops < MaxOps
    /\ Keys \ DOMAIN store # {}
    /\ \E key \in Keys, value \in Values, order \in Orders :
           SetOp(Kv, key, value, SmallThreshold, order).compacted
    /\ \E key \in Keys, value \in Values, order \in Orders :
           ~SetOp(Kv, key, value, SmallThreshold, order).compacted

====
